---------------------------- MODULE Spec2Model ----------------------------
(***************************************************************************)
(* Model of the dataset construction notebook "Our model/Create_dataset"   *)
(* of NFT_rec.  The notebook is a straight-line batch pipeline: every code *)
(* cell is one step of the state machine, executed in notebook order, and  *)
(* the kernel variables the cells assign are the state.                    *)
(*                                                                         *)
(* Conventions.                                                            *)
(*  - A pandas frame / numpy array is a sequence of rows; Python's 0-based *)
(*    row index k is position k+1 of the sequence.  Index VALUES held in   *)
(*    lists (random_idx_list, ...) stay 0-based, as in the notebook.       *)
(*  - A Python dict is a sequence of <<key, value>> pairs in insertion     *)
(*    order.                                                               *)
(*  - A string that the code takes apart (the 'Price' column) is a         *)
(*    sequence of one-character strings.                                   *)
(*  - A buyer address is the number its fixed-width hexadecimal string     *)
(*    denotes: the lexicographic order np.unique sorts such strings by is  *)
(*    the numeric order.                                                   *)
(*  - A feature vector is represented by the raw key of the row it was    *)
(*    stored for in the input table, and by whether a value is missing.    *)
(***************************************************************************)
EXTENDS Integers, Sequences, FiniteSets, TLC

(***************************************************************************)
(* Program constants                                                       *)
(***************************************************************************)
\* CUT = 5: minimum number of transactions of a user
CUT == 5

(***************************************************************************)
(* Bounds of the model                                                     *)
(***************************************************************************)
\* number of freely chosen transactions appended to a base history
MaxFree == 2

(***************************************************************************)
(* Generic helpers over sequences                                          *)
(***************************************************************************)
Range(s) == {s[k] : k \in 1..Len(s)}

\* rows of s whose position satisfies keep, in order (boolean-mask indexing)
RECURSIVE MaskFrom(_, _, _)
MaskFrom(s, keep, k) ==
    IF k > Len(s) THEN <<>>
    ELSE (IF keep[k] THEN <<s[k]>> ELSE <<>>) \o MaskFrom(s, keep, k + 1)

Mask(s, keep) == MaskFrom(s, keep, 1)

\* number of positions of s holding a row that satisfies Test
Count(s, Test(_)) == Cardinality({k \in 1..Len(s) : Test(s[k])})

Min(S) == CHOOSE x \in S : \A y \in S : x <= y

\* np.unique / np.sort of a set of comparable values: ascending sequence
RECURSIVE SortedSeq(_)
SortedSeq(S) ==
    IF S = {} THEN <<>>
    ELSE LET m == Min(S) IN <<m>> \o SortedSeq(S \ {m})

\* np.sort of a sequence (duplicates kept)
RECURSIVE NpSort(_)
NpSort(s) ==
    IF s = <<>> THEN <<>>
    ELSE LET m == Min(Range(s))
             k == CHOOSE j \in 1..Len(s) : s[j] = m
         IN <<m>> \o NpSort(SubSeq(s, 1, k - 1) \o SubSeq(s, k + 1, Len(s)))

(***************************************************************************)
(* String operations used on the 'Price' column                            *)
(***************************************************************************)
\* the pattern anchored at the start of the string (str.match)
DollarAtStart(x) == x # <<>> /\ x[1] = "$"

\* Series.str.contains("\$"): the regex matches a literal dollar sign
ContainsDollar(x) == \E k \in 1..Len(x) : x[k] = "$"

\* str.split(' '): the pieces between single blanks
RECURSIVE SplitFrom(_, _, _)
SplitFrom(x, k, cur) ==
    IF k > Len(x) THEN <<cur>>
    ELSE IF x[k] = " " THEN <<cur>> \o SplitFrom(x, k + 1, <<>>)
    ELSE SplitFrom(x, k + 1, Append(cur, x[k]))

Split(x) == SplitFrom(x, 1, <<>>)

\* str.replace(c, ''): delete every occurrence of the character c
Remove(x, c) == SelectSeq(x, LAMBDA ch : ch # c)

DigitChars == <<"0", "1", "2", "3", "4", "5", "6", "7", "8", "9">>

DigitVal(ch) == (CHOOSE d \in 1..10 : DigitChars[d] = ch) - 1

\* the exceptions the price conversion raises
ValueError == [raised |-> "ValueError"]

IndexError == [raised |-> "IndexError"]

AttributeError == [raised |-> "AttributeError"]

\* the ASCII blanks float() strips: the space, \t, \n, \r, \f and the vertical
\* tab (0x0B, written as itself)
WhiteSpace == {" ", "\t", "\n", "\r", "\f", ""}

\* the other ASCII control characters, 0x01-0x08, 0x0E-0x1F and 0x7F, written
\* as themselves: float() does not strip them
Control ==
    {"", "", "", "", "", "", "", "", "", "", "", "", "", "",
     "", "", "", "", "", "", "", "", "", "", "", "", ""}

\* the visible ASCII characters (the grave accent left out)
Visible ==
    {"!", "\"", "#", "$", "%", "&", "'", "(", ")", "*", "+", ",", "-", ".",
     "/", "0", "1", "2", "3", "4", "5", "6", "7", "8", "9", ":", ";", "<",
     "=", ">", "?", "@", "A", "B", "C", "D", "E", "F", "G", "H", "I", "J",
     "K", "L", "M", "N", "O", "P", "Q", "R", "S", "T", "U", "V", "W", "X",
     "Y", "Z", "[", "\\", "]", "^", "_", "a", "b", "c", "d", "e", "f",
     "g", "h", "i", "j", "k", "l", "m", "n", "o", "p", "q", "r", "s", "t",
     "u", "v", "w", "x", "y", "z", "{", "|", "}", "~"}

\* the strings the conversion is modelled on: ASCII text.  (float() also
\* reads decimal digits and blanks outside ASCII; no such character occurs.)
IsAscii(x) == \A k \in 1..Len(x) : x[k] \in Visible \cup WhiteSpace \cup Control

AllDigits(x) == \A k \in 1..Len(x) : x[k] \in Range(DigitChars)

IsDigits(x) == x # <<>> /\ AllDigits(x)

\* the value of a string of decimal digits, 0 for the empty one
RECURSIVE DigitsValue(_)
DigitsValue(x) ==
    IF x = <<>> THEN 0
    ELSE 10 * DigitsValue(SubSeq(x, 1, Len(x) - 1)) + DigitVal(x[Len(x)])

RECURSIVE Pow10(_)
Pow10(n) == IF n = 0 THEN 1 ELSE 10 * Pow10(n - 1)

(***************************************************************************)
(* float64 values.  A finite value is the exact decimal num / 10^scale     *)
(* with num not divisible by 10 unless scale = 0 (the rounding of a double *)
(* is not modelled; -0.0 is 0); inf is the sign of an infinity, else 0.    *)
(***************************************************************************)
Fin(m, s) == [nan |-> FALSE, inf |-> 0, num |-> m, scale |-> s]

Inf(sign) == [nan |-> FALSE, inf |-> sign, num |-> 0, scale |-> 0]

NotANumber == [nan |-> TRUE, inf |-> 0, num |-> 0, scale |-> 0]

\* the value m * 10^k
RECURSIVE Scaled(_, _)
Scaled(m, k) ==
    IF m = 0 THEN Fin(0, 0)
    ELSE IF k >= 0 THEN Fin(m * Pow10(k), 0)
    ELSE IF m % 10 = 0 THEN Scaled(m \div 10, k + 1)
    ELSE Fin(m, 0 - k)

\* -a
FNeg(a) == IF a.nan THEN a ELSE [a EXCEPT !.inf = 0 - a.inf, !.num = 0 - a.num]

\* a - b
FSub(a, b) ==
    IF a.nan \/ b.nan THEN NotANumber
    ELSE IF a.inf # 0 \/ b.inf # 0
         THEN IF a.inf = b.inf THEN NotANumber
              ELSE IF a.inf # 0 THEN Inf(a.inf) ELSE Inf(0 - b.inf)
    ELSE LET s == IF a.scale > b.scale THEN a.scale ELSE b.scale
         IN  Scaled(a.num * Pow10(s - a.scale) - b.num * Pow10(s - b.scale), 0 - s)

\* a > 0
FPositive(a) == ~a.nan /\ (a.inf = 1 \/ (a.inf = 0 /\ a.num > 0))

(***************************************************************************)
(* float(x) of a string, as astype(float) applies it to every price        *)
(***************************************************************************)
RECURSIVE LStrip(_)
LStrip(x) == IF x # <<>> /\ x[1] \in WhiteSpace THEN LStrip(Tail(x)) ELSE x

RECURSIVE RStrip(_)
RStrip(x) ==
    IF x # <<>> /\ x[Len(x)] \in WhiteSpace THEN RStrip(SubSeq(x, 1, Len(x) - 1)) ELSE x

Strip(x) == RStrip(LStrip(x))

\* an underscore is allowed only between two digits
ValidUnderscores(x) ==
    \A k \in 1..Len(x) :
        x[k] = "_" => /\ k > 1 /\ x[k - 1] \in Range(DigitChars)
                      /\ k < Len(x) /\ x[k + 1] \in Range(DigitChars)

HasSign(x) == x # <<>> /\ x[1] \in {"+", "-"}

Unsigned(x) == IF HasSign(x) THEN Tail(x) ELSE x

SignOf(x) == IF x # <<>> /\ x[1] = "-" THEN 0 - 1 ELSE 1

LowerChar(ch) ==
    CASE ch = "I" -> "i" [] ch = "N" -> "n" [] ch = "F" -> "f" [] ch = "T" -> "t"
      [] ch = "Y" -> "y" [] ch = "A" -> "a" [] OTHER -> ch

Lower(x) == [k \in 1..Len(x) |-> LowerChar(x[k])]

IsInfinity(x) ==
    Lower(x) \in {<<"i", "n", "f">>, <<"i", "n", "f", "i", "n", "i", "t", "y">>}

IsNan(x) == Lower(x) = <<"n", "a", "n">>

\* the positions of an exponent marker
ExponentAt(x) == {e \in 1..Len(x) : x[e] \in {"E", "e"}}

MantissaOf(x) ==
    IF ExponentAt(x) = {} THEN x ELSE SubSeq(x, 1, Min(ExponentAt(x)) - 1)

ExponentOf(x) ==
    IF ExponentAt(x) = {} THEN <<>> ELSE SubSeq(x, Min(ExponentAt(x)) + 1, Len(x))

\* digits with at most one decimal point and at least one digit
IsMantissa(m) ==
    /\ AllDigits(Remove(m, "."))
    /\ Len(Remove(m, ".")) >= 1
    /\ Len(m) - Len(Remove(m, ".")) <= 1

\* number [exponent]: the exponent is e or E, an optional sign and digits
IsDecimal(x) ==
    /\ IsMantissa(MantissaOf(x))
    /\ ExponentAt(x) # {} => IsDigits(Unsigned(ExponentOf(x)))

\* the power of ten by which the digits of the mantissa are multiplied; past
\* ten digits the doubles overflow TLC's integers
DecimalExponent(x) ==
    LET m == MantissaOf(x)
        dots == {k \in 1..Len(m) : m[k] = "."}
        frac == IF dots = {} THEN 0 ELSE Len(m) - Min(dots)
        e == ExponentOf(x)
    IN  SignOf(e) * DigitsValue(Unsigned(e)) - frac

DecimalValue(x) == Scaled(DigitsValue(Remove(MantissaOf(x), ".")), DecimalExponent(x))

\* float(x) does not raise
IsFloat(x) ==
    CASE IsAscii(x) ->
        LET s == Strip(x)
            u == Unsigned(Remove(s, "_"))
        IN  ValidUnderscores(s) /\ (IsDecimal(u) \/ IsInfinity(u) \/ IsNan(u))

\* astype(float) of one string: float(x), which strips blanks, reads an
\* optional sign, then inf, infinity, nan or a decimal number with optional
\* exponent (underscores allowed between digits), and raises ValueError on
\* any other string, the empty one included
ToFloat(x) ==
    LET t == Remove(Strip(x), "_")
        u == Unsigned(t)
        float == IsFloat(x)
    IN  CASE ~float -> ValueError
          [] float /\ IsNan(u) -> NotANumber
          [] float /\ IsInfinity(u) -> Inf(SignOf(t))
          [] float /\ IsDecimal(u) /\ DecimalExponent(u) \in (0 - 9)..9 ->
                IF SignOf(t) = 1 THEN DecimalValue(u) ELSE FNeg(DecimalValue(u))

\* x.split(' ')[2] raises IndexError on a string of fewer than three pieces
MissingPiece(x) == Len(Split(x)) < 3

\* lambda x: x.split(' ')[2][2:-1].replace(',', '').replace('.', '')
PriceDigits(x) ==
    LET tok == Split(x)[3]
    IN  Remove(Remove(SubSeq(tok, 3, Len(tok) - 1), ","), ".")

\* the float that lines 162-163 make of the price string x, or the exception
ParsePrice(x) ==
    IF MissingPiece(x) THEN IndexError ELSE ToFloat(PriceDigits(x))

(***************************************************************************)
(* The raw inputs: dataset/transactions/<COLLECTION>.csv, the four item    *)
(* feature tables and dataset/features_user/user_features.csv              *)
(***************************************************************************)
\* buyer addresses 0xa1, 0xb2 and 0xc3 (the last one never trades)
Users == {161, 178}

Items == {5, 6, 8}

\* "1 ETH ($8.00)"
P8 == <<"1", " ", "E", "T", "H", " ", "(", "$", "8", ".", "0", "0", ")">>

\* "1 ETH ($10.00)"
P10 == <<"1", " ", "E", "T", "H", " ", "(", "$", "1", "0", ".", "0", "0", ")">>

\* "9 ETH ($1,000.00)"
PK == <<"9", " ", "E", "T", "H", " ", "(", "$", "1", ",", "0", "0", "0", ".", "0", "0", ")">>

\* "1 ETH": a price without the currency marker
PBare == <<"1", " ", "E", "T", "H">>

\* "1 ETH ($)": the marker with no amount
PEmpty == <<"1", " ", "E", "T", "H", " ", "(", "$", ")">>

\* "$8.00": the marker in a string of one piece
PShort == <<"$", "8", ".", "0", "0">>

\* "1 ETH ($-8.00)": a signed amount
PNeg == <<"1", " ", "E", "T", "H", " ", "(", "$", "-", "8", ".", "0", "0", ")">>

\* "1 ETH ($1e+2)": an amount with an exponent
PExp == <<"1", " ", "E", "T", "H", " ", "(", "$", "1", "e", "+", "2", ")">>

\* A field of the Price column is a string unless pd.read_csv (line 43) made
\* it something else.  An empty field is read as NaN; it is written as the
\* sequence of the one word nan, which no string of characters equals
NA == <<"nan">>

\* a field of a column in which read_csv found numerals only is a number; it
\* is written as the word float64 followed by its digits
Number(x) == <<"float64">> \o x

IsMissing(c) == c = NA

IsNumber(c) == c # <<>> /\ c[1] = "float64"

IsString(c) == ~IsMissing(c) /\ ~IsNumber(c)

\* the numeral 8
N8 == Number(<<"8">>)

Tx(b, t, p) == [Buyer |-> b, TokenID |-> t, Price |-> p]

\* a history in which only 0xa1 trades, three times
BaseA == <<Tx(161, 5, P10), Tx(161, 6, P8), Tx(161, 8, PK)>>

\* the same three trades interleaved with five trades of 0xb2, three of
\* which carry no dollar price
BaseAB ==
    <<Tx(178, 5, P8), Tx(161, 5, P10), Tx(178, 6, PBare), Tx(161, 6, P8),
      Tx(178, 8, PBare), Tx(178, 6, P10), Tx(161, 8, PK), Tx(178, 5, PBare)>>

\* the transactions that may follow a base history
FreeRows == {Tx(b, t, p) : b \in Users, t \in {5, 6}, p \in {P8, P10, PBare}}

RECURSIVE SeqsUpTo(_, _)
SeqsUpTo(S, n) ==
    IF n = 0 THEN {<<>>}
    ELSE LET shorter == SeqsUpTo(S, n - 1)
         IN  shorter \cup {Append(s, x) : s \in {t \in shorter : Len(t) = n - 1}, x \in S}

Transactions == {b \o f : b \in {BaseA, BaseAB}, f \in SeqsUpTo(FreeRows, MaxFree)}

\* six trades of 0xa1, one of them of token 8
GoodA == BaseA \o <<Tx(161, 5, P8), Tx(161, 6, P10), Tx(161, 5, P10)>>

\* both users trade; 0xa1 five times
GoodAB == BaseAB \o <<Tx(161, 5, P8), Tx(161, 6, P10)>>

\* 0xa1 trades six times and 0xb2 five times, each once in token 8
Mixed ==
    GoodA \o <<Tx(178, 5, P8), Tx(178, 6, P10), Tx(178, 8, PK), Tx(178, 5, P10),
               Tx(178, 6, P8)>>

\* 0xa1 trades eight times and 0xb2 five times, so that five rows are held
\* out and one part of the split holds three
Busy == Mixed \o <<Tx(161, 6, P8), Tx(161, 8, P10)>>

\* 0xa1 trades five times; the two trades of 0xb2, which the user cut
\* removes, are the dearer next trade of token 6 and the dearer last trade of
\* token 5
Intervening ==
    BaseA \o <<Tx(178, 6, P10), Tx(161, 6, P8), Tx(161, 5, P10), Tx(178, 5, PK)>>

\* five trades of 0xa1, the last at a price that carries the marker but
\* cannot be converted
Malformed == {BaseA \o <<Tx(161, 5, P8), Tx(161, 6, p)>> : p \in {PEmpty, PShort}}

\* six trades of 0xa1, the fourth at a price that float() reads although it
\* is not a plain amount; the token was sold at $10.00 before and after
Unusual ==
    {BaseA \o <<Tx(161, 5, p), Tx(161, 6, P8), Tx(161, 5, P10)>> : p \in {PNeg, PExp}}

\* five trades of 0xa1, the last with an empty price field
NoPrice == BaseA \o <<Tx(161, 5, P8), Tx(161, 6, NA)>>

\* five trades of 0xa1 and one trade of 0xb2, which the user cut removes,
\* with an empty price field
NoPriceCut == BaseA \o <<Tx(161, 5, P8), Tx(161, 6, P10), Tx(178, 5, NA)>>

\* five trades of 0xa1 in a file whose prices are bare numerals, one missing
Numerals ==
    <<Tx(161, 5, N8), Tx(161, 6, N8), Tx(161, 8, NA), Tx(161, 5, N8), Tx(161, 6, N8)>>

\* an item feature table is the sequence of its index (the raw token IDs)
FullTable == <<5, 6, 8>>

ItemTables == {FullTable, <<8, 6, 9, 5>>, <<5, 6>>, <<5, 6, 8, 5>>}

\* a row of user_features.csv: the buyer and the feature values stored for that
\* buyer, possibly with a missing value
Uf(b, missing) == [Buyer |-> b, feat |-> [nan |-> missing, of |-> b]]

FullUserTable == <<Uf(161, FALSE), Uf(178, FALSE)>>

UserTables ==
    {FullUserTable,
     <<Uf(195, FALSE), Uf(178, FALSE), Uf(161, FALSE)>>,
     <<Uf(161, TRUE), Uf(178, FALSE)>>,
     <<Uf(161, FALSE), Uf(178, TRUE), Uf(195, TRUE)>>,
     <<Uf(161, FALSE)>>,
     <<>>}

\* the directories of the RecBole checkout the notebook writes into:
\* /home/felab1/workspace/LEE/RecBole/dataset/transactions/ and
\* /home/felab1/workspace/LEE/RecBole/dataset/collections/{COLLECTION}/
RecBoleDirs == {"transactions", "collections"}

\* the input files and, in dirs, the RecBole directories that exist
Csv(tr, img, txt, prc, txn, uf) ==
    [transactions |-> tr, img |-> img, txt |-> txt, prices |-> prc, txns |-> txn,
     user_features |-> uf, dirs |-> RecBoleDirs]

\* the same inputs on a machine on which only the directories d exist
OnMachine(ds, d) == [ds EXCEPT !.dirs = d]

Datasets ==
    {Csv(tr, FullTable, FullTable, FullTable, FullTable, FullUserTable) :
        tr \in Transactions}
    \cup {Csv(GoodA, a, b, c, d, FullUserTable) :
            a \in ItemTables, b \in ItemTables, c \in ItemTables, d \in ItemTables}
    \cup {Csv(GoodAB, FullTable, FullTable, FullTable, FullTable, uf) : uf \in UserTables}
    \cup {Csv(Mixed, a, FullTable, FullTable, FullTable, FullUserTable) : a \in ItemTables}
    \cup {Csv(tr, FullTable, FullTable, FullTable, FullTable, FullUserTable) :
            tr \in {Busy, Intervening, NoPrice, NoPriceCut, Numerals}
                     \cup Malformed \cup Unusual}
    \cup {OnMachine(Csv(GoodA, FullTable, FullTable, FullTable, FullTable, FullUserTable), d) :
            d \in (SUBSET RecBoleDirs) \ {RecBoleDirs}}

(***************************************************************************)
(* Cell "Data preprocessing (filtering)"                                   *)
(***************************************************************************)
\* pd.read_csv(..., index_col=0) of an item feature table: one row per line,
\* carrying its index and the feature vector stored for that raw token
ReadTable(keys) == [k \in 1..Len(keys) |-> [index |-> keys[k], vec |-> keys[k]]]

Index(table) == [k \in 1..Len(table) |-> table[k].index]

\* the transaction table left out of the intersection
FeatureItemsOfThree(img, txt, prc, txn) ==
    Range(Index(img)) \cap Range(Index(txt)) \cap Range(Index(prc))

\* set(image.index) & set(text.index) & set(price.index) & set(transaction.index)
FeatureItems(img, txt, prc, txn) ==
    Range(Index(img)) \cap Range(Index(txt)) \cap Range(Index(prc)) \cap Range(Index(txn))

\* the item filter left out
IsinTokenSkipped(df, values) == df

\* df[df[column].isin(values)]
IsinToken(df, values) == SelectSeq(df, LAMBDA r : r.TokenID \in values)

IsinBuyer(df, values) == SelectSeq(df, LAMBDA r : r.Buyer \in values)

BuyerColumn(df) == {df[k].Buyer : k \in 1..Len(df)}

(***************************************************************************)
(* Cell "USER_CUT"                                                         *)
(***************************************************************************)
\* df['Buyer'].value_counts(), then the buyers whose count is >= CUT
\* a threshold one below CUT
UserCountBelowCut(df) ==
    {b \in BuyerColumn(df) : Count(df, LAMBDA r : r.Buyer = b) >= CUT - 1}

UserCount(df) ==
    {b \in BuyerColumn(df) : Count(df, LAMBDA r : r.Buyer = b) >= CUT}

(***************************************************************************)
(* Cell "Generate price labels"                                            *)
(***************************************************************************)
\* the dtype pd.read_csv (line 43) gives the Price column of the raw table:
\* numeric when the table has rows and no price is a string, object otherwise;
\* the rows kept by the earlier cells keep it
PriceDtype(raw) ==
    IF Len(raw) > 0 /\ \A k \in 1..Len(raw) : ~IsString(raw[k].Price)
    THEN "float64" ELSE "object"

\* df['Price'].str raises AttributeError on a numeric column, and on an
\* object column whose values are numbers only
StrAccessorRaises(df, dtype) ==
    \/ dtype = "float64"
    \/ /\ \E k \in 1..Len(df) : IsNumber(df[k].Price)
       /\ \A k \in 1..Len(df) : ~IsString(df[k].Price)

\* str.contains gives NaN on a value that is no string, and a mask holding
\* NaN raises ValueError
MaskRaises(df) == \E k \in 1..Len(df) : ~IsString(df[k].Price)

\* line 160: df[df['Price'].str.contains("\$")] on a Price column of the
\* given dtype
DropNoDollar(df, dtype) ==
    IF StrAccessorRaises(df, dtype) THEN AttributeError
    ELSE IF MaskRaises(df) THEN ValueError
    ELSE SelectSeq(df, LAMBDA r : ContainsDollar(r.Price))

\* line 162 alone: the Price column holds the digit strings
DigitStrings(df) ==
    [k \in 1..Len(df) |-> [df[k] EXCEPT !.Price = PriceDigits(df[k].Price)]]

\* (the concatenation makes the column a sequence whose rows are converted once)
ConvertPrice(df) ==
    [k \in 1..Len(df) |-> [df[k] EXCEPT !.Price = ParsePrice(df[k].Price)]] \o <<>>

\* df.groupby('Token ID')['Price'].diff(-1) at row k: the price of the row
\* minus the price of the next row of the same token, NaN when there is none
GroupDiff(df, k) ==
    LET later == {j \in (k + 1)..Len(df) : df[j].TokenID = df[k].TokenID}
    IN  IF later = {} THEN NotANumber ELSE FSub(df[k].Price, df[Min(later)].Price)

\* a missing difference filled with -1
FillNaAsRise(d) == IF d.nan THEN Fin(0 - 1, 0) ELSE d

\* .fillna(0)
FillNa(d) == IF d.nan THEN Fin(0, 0) ELSE d

\* the sign flip left out
NegateOmitted(x) == x

\* .apply(lambda x: -x)
Negate(x) == FNeg(x)

\* the threshold taken with >= instead of >
ThresholdNonNegative(x) ==
    IF ~x.nan /\ (x.inf = 1 \/ (x.inf = 0 /\ x.num >= 0)) THEN 1 ELSE 0

\* .apply(lambda x: 1 if x > 0 else 0)
Threshold(x) == IF FPositive(x) THEN 1 ELSE 0

PriceDiff(df) ==
    [k \in 1..Len(df) |->
        [Buyer |-> df[k].Buyer, TokenID |-> df[k].TokenID, Price |-> df[k].Price,
         Price_diff |-> Threshold(Negate(FillNa(GroupDiff(df, k))))]]

(***************************************************************************)
(* Cell "Ensure that the indices for the user and item do not overlap"     *)
(***************************************************************************)
\* the user offset left out
MappingNoOffset(unique, offset) ==
    [x \in Range(unique) |-> (CHOOSE k \in 1..Len(unique) : unique[k] = x) - 1]

\* for i in range(len(unique)): mapping[unique[i]] = i + offset
Mapping(unique, offset) ==
    [x \in Range(unique) |->
        (CHOOSE k \in 1..Len(unique) : unique[k] = x) - 1 + offset]

\* np.array([user_, item_, labels]).T
Inter(usr, itm, lab, mu, mi) ==
    [k \in 1..Len(usr) |-> <<mu[usr[k]], mi[itm[k]], lab[k]>>]

(***************************************************************************)
(* Cell "user features (user_feat.npy)"                                    *)
(***************************************************************************)
\* scaler.fit_transform(df_feature[names]) raises ValueError on a table
\* without rows
ScalerRaises(df) == Len(df) = 0

\* df_feature['Buyer'].apply(lambda x: mapping_u[x] if x in mapping_u else np.nan)
MapBuyer(df, mu) ==
    [k \in 1..Len(df) |->
        [df[k] EXCEPT !.Buyer = IF df[k].Buyer \in DOMAIN mu
                                 THEN Fin(mu[df[k].Buyer], 0) ELSE NotANumber]]

\* df.dropna(): drop every row holding a NaN in any column
DropNa(df) == SelectSeq(df, LAMBDA r : ~r.Buyer.nan /\ ~r.feat.nan)

\* df['Buyer'].astype(int)
BuyerAsInt(df) == [k \in 1..Len(df) |-> [df[k] EXCEPT !.Buyer = df[k].Buyer.num]]

\* np.save of a frame stores its values, without the index
Values(df) == [k \in 1..Len(df) |-> df[k].feat]

(***************************************************************************)
(* Cell "data split"                                                       *)
(***************************************************************************)
\* np.where(inter[:,0]==u)[0]: the 0-based row numbers of user u
Where(int, u) == {k - 1 : k \in {j \in 1..Len(int) : int[j][1] = u}}

\* rounding to the nearest integer instead of truncating
NumSampleRounded(n) == (n * 4 + 5) \div 10

\* int(n * 0.4)
NumSample(n) == (n * 4) \div 10

\* drawing with replacement (replace=True)
ChoiceWithReplacement(rows, k) == [1..k -> rows]

\* np.random.choice(rows, k, replace=False): any k distinct rows, in any order
Choice(rows, k) ==
    {s \in [1..k -> rows] : \A a, b \in 1..k : a # b => s[a] # s[b]}

\* the lists random_idx_list can be after the loop over np.unique(inter[:,0])
RECURSIVE Holdouts(_, _)
Holdouts(int, us) ==
    IF us = <<>> THEN {<<>>}
    ELSE LET rows == Where(int, Head(us))
         IN  {a \o b : a \in Choice(rows, NumSample(Cardinality(rows))),
                       b \in Holdouts(int, Tail(us))}

UsersOf(int) == {int[k][1] : k \in 1..Len(int)}

\* np.delete(inter, idx, axis=0)
Delete(int, idx) == Mask(int, [k \in 1..Len(int) |-> (k - 1) \notin Range(idx)])

\* inter[idx] with a list of row numbers
Take(int, idx) == [k \in 1..Len(idx) |-> int[idx[k] + 1]]

\* np.random.RandomState(42).permutation(n), n = 1..10
Perm42 ==
    << <<0>>, <<1, 0>>, <<0, 1, 2>>, <<1, 3, 0, 2>>, <<1, 4, 2, 0, 3>>,
       <<0, 1, 5, 2, 4, 3>>, <<0, 1, 5, 2, 4, 3, 6>>, <<1, 5, 0, 7, 2, 4, 3, 6>>,
       <<7, 1, 5, 0, 8, 2, 4, 3, 6>>, <<8, 1, 5, 0, 7, 2, 9, 4, 3, 6>> >>

\* test_size=0.5: n_test = ceil(0.5 * n), n_train = n - n_test
NTest(n) == (n + 1) \div 2

NTrain(n) == n - NTest(n)

\* train_test_split raises ValueError when the list or its train part is empty
SplitRaises(lst) == Len(lst) = 0 \/ NTrain(Len(lst)) = 0

\* train_test_split(lst, test_size=0.5, random_state=42): <<train part, test part>>
TrainTestSplit(lst) ==
    LET n == Len(lst)
        perm == Perm42[n]
    IN  << [k \in 1..NTrain(n) |-> lst[perm[NTest(n) + k] + 1]],
           [k \in 1..NTest(n) |-> lst[perm[k] + 1]] >>

(***************************************************************************)
(* Cells "preprocessing valid data", "preprocessing test data",            *)
(* "adjacency matrix"                                                      *)
(***************************************************************************)
HasKey(d, key) == \E k \in 1..Len(d) : d[k][1] = key

Get(d, key) == d[CHOOSE k \in 1..Len(d) : d[k][1] = key][2]

\* d[key].append(x) if key in d else d[key] = [x]
Put(d, key, x) ==
    IF HasKey(d, key)
    THEN [k \in 1..Len(d) |-> IF d[k][1] = key THEN <<key, Append(d[k][2], x)>> ELSE d[k]]
    ELSE Append(d, <<key, <<x>>>>)

\* for i in range(len(rows)): put rows[i][1] under rows[i][0]
RECURSIVE GroupFrom(_, _, _)
GroupFrom(rows, k, d) ==
    IF k > Len(rows) THEN d
    ELSE GroupFrom(rows, k + 1, Put(d, rows[k][1], rows[k][2]))

GroupByUser(rows) == GroupFrom(rows, 1, <<>>)

\* array[i] = [key] + val
AsArray(d) == [k \in 1..Len(d) |-> <<d[k][1]>> \o d[k][2]]

(***************************************************************************)
(* Cells "Extract the item index in the order of the most traded"          *)
(***************************************************************************)
\* for i in d.values(): lst += i
RECURSIVE Concat(_, _)
Concat(d, k) == IF k > Len(d) THEN <<>> ELSE d[k][2] \o Concat(d, k + 1)

ValuesList(d) == Concat(d, 1)

Reverse(s) == [k \in 1..Len(s) |-> s[Len(s) + 1 - k]]

\* the distinct values of lst in order of first appearance
RECURSIVE Distinct(_, _)
Distinct(lst, seen) ==
    IF lst = <<>> THEN <<>>
    ELSE IF Head(lst) \in seen THEN Distinct(Tail(lst), seen)
    ELSE <<Head(lst)>> \o Distinct(Tail(lst), seen \cup {Head(lst)})

\* the hash-table count behind value_counts: <<value, count>> rows in order of
\* first appearance
Counted(lst) ==
    LET keys == Distinct(lst, {})
    IN  [k \in 1..Len(keys) |->
            <<keys[k], Cardinality({j \in 1..Len(lst) : lst[j] = keys[k]})>>]

\* ndarray.argsort of a short array (insertion sort: equal values keep their
\* order): the positions of vals in ascending order of value
RECURSIVE ArgsortFrom(_, _)
ArgsortFrom(vals, left) ==
    IF left = {} THEN <<>>
    ELSE LET p == CHOOSE a \in left :
                    \A b \in left : vals[a] < vals[b] \/ (vals[a] = vals[b] /\ a <= b)
         IN  <<p>> \o ArgsortFrom(vals, left \ {p})

Argsort(vals) == ArgsortFrom(vals, 1..Len(vals))

\* the descending order taken ascending (ascending=True)
SortValuesAscending(rows) ==
    LET a == Argsort([k \in 1..Len(rows) |-> rows[k][2]])
    IN  [k \in 1..Len(rows) |-> rows[a[k]]]

\* Series.sort_values(ascending=False): the values are reversed, argsorted
\* ascending, and the resulting order is reversed
SortValues(rows) ==
    LET n == Len(rows)
        a == Argsort(Reverse([k \in 1..n |-> rows[k][2]]))
        indexer == Reverse([k \in 1..n |-> n + 1 - a[k]])
    IN  [k \in 1..n |-> rows[indexer[k]]]

\* pd.Series(lst).value_counts(), which sorts by descending count
ValueCounts(lst) == SortValues(Counted(lst))

\* pd.Series(lst).value_counts().sort_values(ascending=False).index
PopularIndex(lst) ==
    LET vc == SortValues(ValueCounts(lst))
    IN  [k \in 1..Len(vc) |-> vc[k][1]]

(***************************************************************************)
(* Cells "item features (feat.npy)"                                        *)
(***************************************************************************)
\* table.loc[table.index.isin(item_unique)]
Restrict(table, unique) == SelectSeq(table, LAMBDA r : r.index \in Range(unique))

\* table.index = table.index.map(mapping_i)
Reindex(table, mi) == [k \in 1..Len(table) |-> [table[k] EXCEPT !.index = mi[table[k].index]]]

\* the comparison made on the sets of keys, which ignores a repeated key
SameIndexAsSets(a, b) == Range(Index(a)) = Range(Index(b))

\* np.array_equal(np.sort(a.index.values), np.sort(b.index.values))
SameIndex(a, b) == NpSort(Index(a)) = NpSort(Index(b))

Vectors(table) == [k \in 1..Len(table) |-> table[k].vec]

(***************************************************************************)
(* State: the input files, the kernel variables of the notebook, the cell  *)
(* to run next, the files written, and the exception that ended the run    *)
(***************************************************************************)
VARIABLES dataset, pc, df_collection, image, text, price, transaction, indices,
          df_feature, user, item, labels, item_unique, user_unique, mapping_i,
          mapping_u, inter, random_idx_list, train, train_idx_list,
          valid_idx_list, test_idx_list, valid, test, valid_dict, valid_array,
          test_dict, test_array, adj_dict, files, previous, raised

tables == <<image, text, price, transaction>>

arrays == <<user, item, labels>>

mappings == <<item_unique, user_unique, mapping_i, mapping_u, inter>>

split == <<random_idx_list, train, train_idx_list, valid_idx_list, test_idx_list,
           valid, test>>

grouped == <<valid_dict, valid_array, test_dict, test_array>>

vars == <<dataset, pc, df_collection, tables, indices, df_feature, arrays, mappings,
          split, grouped, adj_dict, files, previous, raised>>

\* np.save(save_path + name, content)
Save(fs, name, content) == (name :> content) @@ fs

\* to_csv and pickle.dump into a RecBole directory
Dump(fs, name, content) == (name :> content) @@ fs

\* no exception so far
NoError == [cell |-> "", error |-> ""]

\* the uncaught exception error raised by the cell
Raise(cell, error) == [cell |-> cell, error |-> error]

\* the kernel after the first two cells: the imports, and
\* df_collection = pd.read_csv(f"dataset/transactions/{COLLECTION}.csv")
Fresh(ds) ==
    /\ dataset = ds
    /\ pc = "filtering"
    /\ df_collection = ds.transactions
    /\ image = <<>> /\ text = <<>> /\ price = <<>> /\ transaction = <<>>
    /\ indices = {}
    /\ df_feature = <<>>
    /\ user = <<>> /\ item = <<>> /\ labels = <<>>
    /\ item_unique = <<>> /\ user_unique = <<>>
    /\ mapping_i = <<>> /\ mapping_u = <<>>
    /\ inter = <<>>
    /\ random_idx_list = <<>> /\ train = <<>> /\ train_idx_list = {}
    /\ valid_idx_list = <<>> /\ test_idx_list = <<>>
    /\ valid = <<>> /\ test = <<>>
    /\ valid_dict = <<>> /\ valid_array = <<>>
    /\ test_dict = <<>> /\ test_array = <<>>
    /\ adj_dict = <<>>
    /\ files = <<>>
    /\ previous = <<>>
    /\ raised = NoError

Init == \E ds \in Datasets : Fresh(ds)

\* lines 76-87
Filtering ==
    /\ pc = "filtering"
    /\ LET img == ReadTable(dataset.img)
           txt == ReadTable(dataset.txt)
           prc == ReadTable(dataset.prices)
           txn == ReadTable(dataset.txns)
           ind == FeatureItems(img, txt, prc, txn)
       IN  /\ image' = img
           /\ text' = txt
           /\ price' = prc
           /\ transaction' = txn
           /\ indices' = ind
           /\ df_feature' = dataset.user_features
           /\ df_collection' =
                IsinBuyer(IsinToken(df_collection, ind), BuyerColumn(dataset.user_features))
    /\ pc' = "user_cut"
    /\ UNCHANGED <<dataset, arrays, mappings, split, grouped, adj_dict, files, previous, raised>>

\* lines 122-133
UserCut ==
    /\ pc = "user_cut"
    /\ df_collection' = IsinBuyer(df_collection, UserCount(df_collection))
    /\ pc' = "labels"
    /\ UNCHANGED <<dataset, tables, indices, df_feature, arrays, mappings, split,
                   grouped, adj_dict, files, previous, raised>>

\* lines 159-191.  Line 160 drops the rows without '$', or raises with
\* df_collection as it was; the conversion of line 162 raises IndexError
\* before anything is assigned to the Price column, that of line 163 raises
\* ValueError with the digit strings in place
Labels ==
    /\ pc = "labels"
    /\ LET dtype == PriceDtype(dataset.transactions)
           kept == DropNoDollar(df_collection, dtype)
       IN  IF StrAccessorRaises(df_collection, dtype)
           THEN /\ raised' = Raise("labels", "AttributeError")
                /\ pc' = "failed"
                /\ UNCHANGED <<df_collection, arrays, files>>
           ELSE IF MaskRaises(df_collection)
           THEN /\ raised' = Raise("labels", "ValueError")
                /\ pc' = "failed"
                /\ UNCHANGED <<df_collection, arrays, files>>
           ELSE IF \E k \in 1..Len(kept) : MissingPiece(kept[k].Price)
           THEN /\ df_collection' = kept
                /\ raised' = Raise("labels", "IndexError")
                /\ pc' = "failed"
                /\ UNCHANGED <<arrays, files>>
           ELSE IF \E k \in 1..Len(kept) : ~IsFloat(PriceDigits(kept[k].Price))
           THEN /\ df_collection' = DigitStrings(kept)
                /\ raised' = Raise("labels", "ValueError")
                /\ pc' = "failed"
                /\ UNCHANGED <<arrays, files>>
           ELSE LET df == PriceDiff(ConvertPrice(kept))
                    usr == [k \in 1..Len(df) |-> df[k].Buyer]
                    itm == [k \in 1..Len(df) |-> df[k].TokenID]
                    lab == [k \in 1..Len(df) |-> df[k].Price_diff]
                IN  /\ df_collection' = df
                    /\ user' = usr
                    /\ item' = itm
                    /\ labels' = lab
                    /\ files' = Save(Save(files, "interactions", <<usr, itm, lab>>),
                                     "num_user_item",
                                     [num_user |-> Cardinality(Range(usr)),
                                      num_item |-> Cardinality(Range(itm))])
                    /\ pc' = "recbole_csv"
                    /\ UNCHANGED raised
    /\ UNCHANGED <<dataset, tables, indices, df_feature, mappings, split, grouped,
                   adj_dict, previous>>

\* lines 200-207: to_csv raises OSError when the directory does not exist
RecBoleCsv ==
    /\ pc = "recbole_csv"
    /\ IF "transactions" \in dataset.dirs
       THEN /\ files' = Dump(files, "recbole_csv", df_collection)
            /\ pc' = "mapping"
            /\ UNCHANGED raised
       ELSE /\ raised' = Raise("recbole_csv", "OSError")
            /\ pc' = "failed"
            /\ UNCHANGED files
    /\ UNCHANGED <<dataset, df_collection, tables, indices, df_feature, arrays,
                   mappings, split, grouped, adj_dict, previous>>

\* lines 257-274
MappingCell ==
    /\ pc = "mapping"
    /\ LET iu == SortedSeq(Range(item))
           uu == SortedSeq(Range(user))
           mi == Mapping(iu, 0)
           mu == Mapping(uu, Cardinality(Range(item)))
       IN  /\ item_unique' = iu
           /\ user_unique' = uu
           /\ mapping_i' = mi
           /\ mapping_u' = mu
           /\ inter' = Inter(user, item, labels, mu, mi)
    /\ pc' = "user_feat"
    /\ UNCHANGED <<dataset, df_collection, tables, indices, df_feature, arrays, split,
                   grouped, adj_dict, files, previous, raised>>

\* lines 306-325; the min-max scaling changes the values of a row, not the
\* rows present nor which values are missing
UserFeat ==
    /\ pc = "user_feat"
    /\ IF ScalerRaises(dataset.user_features)
       THEN /\ df_feature' = dataset.user_features
            /\ raised' = Raise("user_feat", "ValueError")
            /\ pc' = "failed"
            /\ UNCHANGED files
       ELSE LET df == BuyerAsInt(DropNa(MapBuyer(dataset.user_features, mapping_u)))
            IN  /\ df_feature' = df
                /\ files' = Save(files, "user_feat", Values(df))
                /\ pc' = "split"
                /\ UNCHANGED raised
    /\ UNCHANGED <<dataset, df_collection, tables, indices, arrays, mappings, split,
                   grouped, adj_dict, previous>>

\* lines 355-379; a ValueError of train_test_split ends the run with the
\* assignments made before it in place.  train_idx_list is list(set - set):
\* its members are modelled, the iteration order of the Python set is not
SplitCell ==
    /\ pc = "split"
    /\ \E r \in Holdouts(inter, SortedSeq(UsersOf(inter))) :
          /\ random_idx_list' = r
          /\ train' = Delete(inter, r)
          /\ train_idx_list' = {k - 1 : k \in 1..Len(inter)} \ Range(r)
          /\ IF SplitRaises(r)
             THEN /\ pc' = "failed"
                  /\ raised' = Raise("split", "ValueError")
                  /\ UNCHANGED <<valid_idx_list, test_idx_list, valid, test>>
             ELSE LET parts == TrainTestSplit(r)
                  IN  /\ valid_idx_list' = parts[1]
                      /\ test_idx_list' = parts[2]
                      /\ valid' = Take(inter, parts[1])
                      /\ test' = Take(inter, parts[2])
                      /\ pc' = "recbole_indices"
                      /\ UNCHANGED raised
    /\ UNCHANGED <<dataset, df_collection, tables, indices, df_feature, arrays,
                   mappings, grouped, adj_dict, files, previous>>

\* lines 392-403: indices is assigned, then open() raises FileNotFoundError
\* when the directory does not exist
RecBoleIndices ==
    /\ pc = "recbole_indices"
    /\ indices' = <<train_idx_list, valid_idx_list, test_idx_list>>
    /\ IF "collections" \in dataset.dirs
       THEN /\ files' = Dump(files, "split_indices",
                             <<train_idx_list, valid_idx_list, test_idx_list>>)
            /\ pc' = "valid_dict"
            /\ UNCHANGED raised
       ELSE /\ raised' = Raise("recbole_indices", "FileNotFoundError")
            /\ pc' = "failed"
            /\ UNCHANGED files
    /\ UNCHANGED <<dataset, df_collection, tables, df_feature, arrays, mappings, split,
                   grouped, adj_dict, previous>>

\* lines 431-436
ValidDict ==
    /\ pc = "valid_dict"
    /\ valid_dict' = GroupByUser(valid)
    /\ pc' = "indices_valid"
    /\ UNCHANGED <<dataset, df_collection, tables, indices, df_feature, arrays,
                   mappings, split, valid_array, test_dict, test_array, adj_dict,
                   files, previous, raised>>

\* lines 453-464; the notebook reuses the name indices
IndicesValid ==
    /\ pc = "indices_valid"
    /\ indices' = PopularIndex(ValuesList(valid_dict))
    /\ files' = Save(files, "indices_valid", PopularIndex(ValuesList(valid_dict)))
    /\ pc' = "valid_array"
    /\ UNCHANGED <<dataset, df_collection, tables, df_feature, arrays, mappings, split,
                   grouped, adj_dict, previous, raised>>

\* lines 492-497
ValidArray ==
    /\ pc = "valid_array"
    /\ valid_array' = AsArray(valid_dict)
    /\ pc' = "test_dict"
    /\ UNCHANGED <<dataset, df_collection, tables, indices, df_feature, arrays,
                   mappings, split, valid_dict, test_dict, test_array, adj_dict,
                   files, previous, raised>>

\* lines 529-534
TestDict ==
    /\ pc = "test_dict"
    /\ test_dict' = GroupByUser(test)
    /\ pc' = "indices_test"
    /\ UNCHANGED <<dataset, df_collection, tables, indices, df_feature, arrays,
                   mappings, split, valid_dict, valid_array, test_array, adj_dict,
                   files, previous, raised>>

\* lines 551-562
IndicesTest ==
    /\ pc = "indices_test"
    /\ indices' = PopularIndex(ValuesList(test_dict))
    /\ files' = Save(files, "indices_test", PopularIndex(ValuesList(test_dict)))
    /\ pc' = "test_array"
    /\ UNCHANGED <<dataset, df_collection, tables, df_feature, arrays, mappings, split,
                   grouped, adj_dict, previous, raised>>

\* lines 590-595
TestArray ==
    /\ pc = "test_array"
    /\ test_array' = AsArray(test_dict)
    /\ pc' = "save_split"
    /\ UNCHANGED <<dataset, df_collection, tables, indices, df_feature, arrays,
                   mappings, split, valid_dict, valid_array, test_dict, adj_dict,
                   files, previous, raised>>

\* lines 608-610
SaveSplit ==
    /\ pc = "save_split"
    /\ files' = Save(Save(Save(files, "train", train), "val", valid_array),
                     "test", test_array)
    /\ pc' = "adj"
    /\ UNCHANGED <<dataset, df_collection, tables, indices, df_feature, arrays,
                   mappings, split, grouped, adj_dict, previous, raised>>

\* the rows the adjacency loop reads: for i in range(len(inter))
AdjRows == inter

\* lines 639-650
AdjCell ==
    /\ pc = "adj"
    /\ adj_dict' = GroupByUser(AdjRows)
    /\ files' = Save(files, "adj_dict", GroupByUser(AdjRows))
    /\ pc' = "item_feat"
    /\ UNCHANGED <<dataset, df_collection, tables, indices, df_feature, arrays,
                   mappings, split, grouped, previous, raised>>

\* lines 703-716
ItemFeat ==
    /\ pc = "item_feat"
    /\ LET iu == SortedSeq(Range(item))
       IN  /\ item_unique' = iu
           /\ image' = Reindex(Restrict(image, iu), mapping_i)
           /\ text' = Reindex(Restrict(text, iu), mapping_i)
           /\ price' = Reindex(Restrict(price, iu), mapping_i)
           /\ transaction' = Reindex(Restrict(transaction, iu), mapping_i)
    /\ pc' = "assert_save"
    /\ UNCHANGED <<dataset, df_collection, indices, df_feature, arrays, user_unique,
                   mapping_i, mapping_u, inter, split, grouped, adj_dict, files,
                   previous, raised>>

\* lines 733-741; a failing assert ends the run before the four saves
AssertSave ==
    /\ pc = "assert_save"
    /\ IF SameIndex(image, text) /\ SameIndex(image, price) /\ SameIndex(image, transaction)
       THEN /\ files' = Save(Save(Save(Save(files, "image_feat", Vectors(image)),
                                       "text_feat", Vectors(text)),
                                  "price_feat", Vectors(price)),
                             "transaction_feat", Vectors(transaction))
            /\ pc' = "done"
            /\ UNCHANGED raised
       ELSE /\ pc' = "failed"
            /\ raised' = Raise("assert_save", "AssertionError")
            /\ UNCHANGED files
    /\ UNCHANGED <<dataset, df_collection, tables, indices, df_feature, arrays,
                   mappings, split, grouped, adj_dict, previous>>

Next ==
    \/ Filtering
    \/ UserCut
    \/ Labels
    \/ RecBoleCsv
    \/ MappingCell
    \/ UserFeat
    \/ SplitCell
    \/ RecBoleIndices
    \/ ValidDict
    \/ IndicesValid
    \/ ValidArray
    \/ TestDict
    \/ IndicesTest
    \/ TestArray
    \/ SaveSplit
    \/ AdjCell
    \/ ItemFeat
    \/ AssertSave

Spec == Init /\ [][Next]_vars

(***************************************************************************)
(* Running the notebook a second time on the same input files: the kernel  *)
(* is restarted, the files under save_path stay until they are overwritten *)
(***************************************************************************)
Rerun ==
    /\ pc = "done"
    /\ previous = <<>>
    /\ previous' = files
    /\ pc' = "filtering"
    /\ df_collection' = dataset.transactions
    /\ image' = <<>> /\ text' = <<>> /\ price' = <<>> /\ transaction' = <<>>
    /\ indices' = {}
    /\ df_feature' = <<>>
    /\ user' = <<>> /\ item' = <<>> /\ labels' = <<>>
    /\ item_unique' = <<>> /\ user_unique' = <<>>
    /\ mapping_i' = <<>> /\ mapping_u' = <<>>
    /\ inter' = <<>>
    /\ random_idx_list' = <<>> /\ train' = <<>> /\ train_idx_list' = {}
    /\ valid_idx_list' = <<>> /\ test_idx_list' = <<>>
    /\ valid' = <<>> /\ test' = <<>>
    /\ valid_dict' = <<>> /\ valid_array' = <<>>
    /\ test_dict' = <<>> /\ test_array' = <<>>
    /\ adj_dict' = <<>>
    /\ UNCHANGED <<dataset, files, raised>>

RerunDatasets ==
    {Csv(GoodA, FullTable, FullTable, FullTable, FullTable, FullUserTable)}
    \cup {Csv(GoodAB, FullTable, FullTable, FullTable, FullTable, uf) : uf \in UserTables}

InitRerun == \E ds \in RerunDatasets : Fresh(ds)

NextRerun == Next \/ Rerun

SpecRerun == InitRerun /\ [][NextRerun]_vars

(***************************************************************************)
(* Which cells have run                                                    *)
(***************************************************************************)
LabelsRan == pc \notin {"filtering", "user_cut", "labels"} /\ raised.cell # "labels"

RecBoleCsvRan == LabelsRan /\ pc # "recbole_csv" /\ raised.cell # "recbole_csv"

MappingRan == RecBoleCsvRan /\ pc # "mapping"

UserFeatRan == MappingRan /\ pc # "user_feat" /\ raised.cell # "user_feat"

SplitRan == UserFeatRan /\ pc # "split"

\* the split cell ran to its end (train_test_split returned)
SplitCompleted == SplitRan /\ raised.cell # "split"

AdjRan ==
    /\ SplitCompleted
    /\ raised.cell # "recbole_indices"
    /\ pc \notin {"recbole_indices", "valid_dict", "indices_valid", "valid_array",
                  "test_dict", "indices_test", "test_array", "save_split", "adj"}

ItemFeatRan == AdjRan /\ pc # "item_feat"

\* the rows of user u in an array of <<user, item, label>> rows
RowsOf(rows, u) == SelectSeq(rows, LAMBDA r : r[1] = u)

ItemsOf(rows, u) == [k \in 1..Len(RowsOf(rows, u)) |-> RowsOf(rows, u)[k][2]]

\* the position of the next row of the same token after row k, 0 if none
NextOfToken(df, k) ==
    LET later == {j \in (k + 1)..Len(df) : df[j].TokenID = df[k].TokenID}
    IN  IF later = {} THEN 0 ELSE Min(later)

(***************************************************************************)
(* C1: the adjacency map holds, for every user of inter, exactly the items *)
(* of that user's train rows, in train order, and nothing of a held-out    *)
(* row.  (The notebook builds the map from inter; the statement fails.)    *)
(***************************************************************************)
C1_AdjFromTrainOnly ==
    AdjRan =>
        /\ {adj_dict[k][1] : k \in 1..Len(adj_dict)} = UsersOf(train)
        /\ \A u \in UsersOf(inter) : HasKey(adj_dict, u) /\ Get(adj_dict, u) = ItemsOf(train, u)

(***************************************************************************)
(* C2 as stated: the label of a row is 1 exactly when the next row of the  *)
(* same item has a strictly lower price, 0 otherwise.                      *)
(***************************************************************************)
C2_LabelOneOnPriceDrop ==
    LabelsRan =>
        \A k \in 1..Len(df_collection) :
            df_collection[k].Price_diff =
                IF /\ NextOfToken(df_collection, k) # 0
                   /\ df_collection[NextOfToken(df_collection, k)].Price.num
                        < df_collection[k].Price.num
                THEN 1 ELSE 0

(***************************************************************************)
(* C2 amended: the label of a row is 1 exactly when the next row of the    *)
(* same item has a strictly higher price, 0 otherwise, the last row of an  *)
(* item included; rows [$10, $8] of one item get labels [0, 0].            *)
(***************************************************************************)
C2_LabelOneOnPriceRise ==
    LabelsRan =>
        \A k \in 1..Len(df_collection) :
            df_collection[k].Price_diff =
                IF /\ NextOfToken(df_collection, k) # 0
                   /\ df_collection[NextOfToken(df_collection, k)].Price.num
                        > df_collection[k].Price.num
                THEN 1 ELSE 0

\* a $10.00 row directly followed, for its token, by a last $8.00 row: labels 0, 0
C2_Witness ==
    /\ LabelsRan
    /\ \E k \in 1..Len(df_collection) :
          LET n == NextOfToken(df_collection, k)
          IN  /\ n # 0
              /\ df_collection[k].Price = Fin(1000, 0)
              /\ df_collection[n].Price = Fin(800, 0)
              /\ NextOfToken(df_collection, n) = 0
              /\ df_collection[k].Price_diff = 0
              /\ df_collection[n].Price_diff = 0

(***************************************************************************)
(* C3: in the saved interaction array the label is 1 when the subsequent   *)
(* transaction of the same token is strictly dearer, and 0 when it is      *)
(* cheaper, equally priced, or does not exist.                             *)
(***************************************************************************)
C3_LabelUpwardMovement ==
    LabelsRan =>
        LET saved == files["interactions"]
        IN  /\ Len(saved[3]) = Len(df_collection)
            /\ saved[2] = [k \in 1..Len(df_collection) |-> df_collection[k].TokenID]
            /\ \A k \in 1..Len(df_collection) :
                  LET n == NextOfToken(df_collection, k)
                  IN  /\ n = 0 => saved[3][k] = 0
                      /\ n # 0 /\ df_collection[n].Price.num > df_collection[k].Price.num
                            => saved[3][k] = 1
                      /\ n # 0 /\ df_collection[n].Price.num < df_collection[k].Price.num
                            => saved[3][k] = 0
                      /\ n # 0 /\ df_collection[n].Price.num = df_collection[k].Price.num
                            => saved[3][k] = 0

\* all four cases occur in one run: a rise, a drop, an equal price, no successor
C3_Witness ==
    /\ LabelsRan
    /\ \E a, b, c, d \in 1..Len(df_collection) :
          LET nx(k) == NextOfToken(df_collection, k)
              pr(k) == df_collection[k].Price.num
          IN  /\ nx(a) # 0 /\ pr(nx(a)) > pr(a) /\ labels[a] = 1
              /\ nx(b) # 0 /\ pr(nx(b)) < pr(b) /\ labels[b] = 0
              /\ nx(c) # 0 /\ pr(nx(c)) = pr(c) /\ labels[c] = 0
              /\ nx(d) = 0 /\ labels[d] = 0

(***************************************************************************)
(* C4: once the split cell has completed, the row numbers of inter are     *)
(* partitioned into those of train, valid and test (pairwise disjoint,     *)
(* none twice, union = all rows), the three arrays are the rows at these   *)
(* numbers, and per user the three row counts add up to the user's rows.   *)
(***************************************************************************)
C4_SplitIsPartition ==
    SplitCompleted =>
        LET all == {k - 1 : k \in 1..Len(inter)}
            tr == train_idx_list
            va == Range(valid_idx_list)
            te == Range(test_idx_list)
        IN  /\ tr \cup va \cup te = all
            /\ tr \cap va = {} /\ tr \cap te = {} /\ va \cap te = {}
            /\ Cardinality(tr) + Len(valid_idx_list) + Len(test_idx_list) = Len(inter)
            /\ train = Take(inter, SortedSeq(tr))
            /\ valid = Take(inter, valid_idx_list)
            /\ test = Take(inter, test_idx_list)
            /\ \A u \in UsersOf(inter) :
                  Len(RowsOf(train, u)) + Len(RowsOf(valid, u)) + Len(RowsOf(test, u))
                    = Len(RowsOf(inter, u))

\* a completed split in which one user has rows in each of the three parts
\* and another user has rows in train only
C4_Witness ==
    /\ SplitCompleted
    /\ \E u, w \in UsersOf(inter) :
          /\ RowsOf(train, u) # <<>> /\ RowsOf(valid, u) # <<>> /\ RowsOf(test, u) # <<>>
          /\ RowsOf(train, w) # <<>> /\ RowsOf(valid, w) = <<>> /\ RowsOf(test, w) = <<>>

(***************************************************************************)
(* C5: after the holdout loop every user u with n rows in inter has        *)
(* exactly floor(0.4 * n) of its own row numbers in random_idx_list, each  *)
(* once, and n - floor(0.4 * n) rows in train; with n = 2 none is held out *)
(* and both rows are in train.                                             *)
(***************************************************************************)
C5_HoldoutCount ==
    SplitRan =>
        /\ \A k \in 1..Len(random_idx_list) : random_idx_list[k] \in 0..(Len(inter) - 1)
        /\ \A u \in UsersOf(inter) :
              LET n == Len(RowsOf(inter, u))
                  at == {k \in 1..Len(random_idx_list) : inter[random_idx_list[k] + 1][1] = u}
                  h == Cardinality(at)
              IN  /\ 5 * h <= 2 * n /\ 2 * n < 5 * (h + 1)
                  /\ Cardinality({random_idx_list[k] : k \in at}) = h
                  /\ Len(RowsOf(train, u)) = n - h
                  /\ n = 2 => h = 0 /\ RowsOf(train, u) = RowsOf(inter, u)

\* one user with exactly two rows, both in train, beside a user with five rows
\* of which two are held out
C5_Witness ==
    /\ SplitRan
    /\ \E u, w \in UsersOf(inter) :
          /\ Len(RowsOf(inter, u)) = 2 /\ Len(RowsOf(train, u)) = 2
          /\ Len(RowsOf(inter, w)) = 5 /\ Len(RowsOf(train, w)) = 3
          /\ Len(random_idx_list) = 2

(***************************************************************************)
(* C6: mapping_i maps the distinct raw items one-to-one onto               *)
(* 0..num_items-1 in ascending order, mapping_u the distinct raw users     *)
(* onto num_items..num_items+num_users-1 in ascending order, and every row *)
(* of inter has its user in the user range and its item in the item range. *)
(***************************************************************************)
C6_IndexSpace ==
    MappingRan =>
        LET ni == Cardinality(Range(item))
            nu == Cardinality(Range(user))
        IN  /\ DOMAIN mapping_i = Range(item)
            /\ {mapping_i[x] : x \in DOMAIN mapping_i} = 0..(ni - 1)
            /\ \A x, y \in DOMAIN mapping_i : x < y => mapping_i[x] < mapping_i[y]
            /\ DOMAIN mapping_u = Range(user)
            /\ {mapping_u[x] : x \in DOMAIN mapping_u} = ni..(ni + nu - 1)
            /\ \A x, y \in DOMAIN mapping_u : x < y => mapping_u[x] < mapping_u[y]
            /\ Len(inter) = Len(user)
            /\ \A k \in 1..Len(inter) :
                  /\ inter[k][1] = mapping_u[user[k]] /\ inter[k][1] \in ni..(ni + nu - 1)
                  /\ inter[k][2] = mapping_i[item[k]] /\ inter[k][2] \in 0..(ni - 1)
            /\ files["num_user_item"] = [num_user |-> nu, num_item |-> ni]

\* items {5, 6, 8} and two users give {5:0, 6:1, 8:2} and {0xa1:3, 0xb2:4}
C6_Witness ==
    /\ MappingRan
    /\ Range(item) = {5, 6, 8}
    /\ Range(user) = {161, 178}
    /\ mapping_i = (5 :> 0) @@ (6 :> 1) @@ (8 :> 2)
    /\ mapping_u = (161 :> 3) @@ (178 :> 4)

(***************************************************************************)
(* C7: every user of inter has at least CUT = 5 rows in inter.  (The cut   *)
(* is applied before the rows without a dollar price are dropped; the      *)
(* statement fails.)                                                       *)
(***************************************************************************)
C7_UserCutHoldsInInter ==
    MappingRan => \A u \in UsersOf(inter) : Len(RowsOf(inter, u)) >= CUT

(***************************************************************************)
(* C8: a second run on the same input files writes the same files as the   *)
(* first.  (np.random.choice draws from the unseeded global generator; the *)
(* statement fails.)                                                       *)
(***************************************************************************)
C8_RerunWritesSameFiles ==
    (pc = "done" /\ previous # <<>>) => files = previous

(***************************************************************************)
(* C9: after the user feature cell the keys of the user feature table are  *)
(* exactly the mapped users of inter.  (dropna also drops the rows of      *)
(* users of inter that hold a missing feature value; the statement fails.) *)
(***************************************************************************)
C9_UserFeatureKeys ==
    UserFeatRan => {df_feature[k].Buyer : k \in 1..Len(df_feature)} = UsersOf(inter)

(***************************************************************************)
(* C10: after the item feature cell the four item feature tables have the  *)
(* same key set, which is the set of mapped items of inter, 0..num_items-1.*)
(***************************************************************************)
C10_ItemFeatureKeys ==
    ItemFeatRan =>
        LET keys(t) == Range(Index(t))
        IN  /\ keys(image) = keys(text)
            /\ keys(image) = keys(price)
            /\ keys(image) = keys(transaction)
            /\ keys(image) = {inter[k][2] : k \in 1..Len(inter)}
            /\ keys(image) = 0..(files["num_user_item"].num_item - 1)

\* the input tables had different key sets, one of them missing a traded token
\* and one holding a token that is not traded
C10_Witness ==
    /\ ItemFeatRan
    /\ inter # <<>>
    /\ Range(dataset.img) # Range(dataset.prices)
    /\ \E t \in {dataset.img, dataset.txt, dataset.prices, dataset.txns} :
          \E k \in 1..Len(dataset.transactions) :
              dataset.transactions[k].TokenID \notin Range(t)
    /\ \E t \in {dataset.img, dataset.txt, dataset.prices, dataset.txns} :
          9 \in Range(t)

(***************************************************************************)
(* C11: from the filtering cell on, every row of the interaction frame has *)
(* its raw token in all four item feature tables and its raw buyer in the  *)
(* user feature table; the same holds of the user and item arrays after    *)
(* the user cut, the labelling and the mapping.                            *)
(***************************************************************************)
C11_RowsHaveFeatures ==
    LET inAll == Range(dataset.img) \cap Range(dataset.txt)
                    \cap Range(dataset.prices) \cap Range(dataset.txns)
        known == {dataset.user_features[k].Buyer : k \in 1..Len(dataset.user_features)}
    IN  /\ pc # "filtering" =>
              \A k \in 1..Len(df_collection) :
                  df_collection[k].TokenID \in inAll /\ df_collection[k].Buyer \in known
        /\ LabelsRan => Range(item) \subseteq inAll /\ Range(user) \subseteq known
        /\ MappingRan =>
              /\ DOMAIN mapping_i \subseteq inAll
              /\ DOMAIN mapping_u \subseteq known

\* rows survive to inter although a traded token is missing from a table, or a
\* trading buyer from the user table
C11_Witness ==
    /\ MappingRan
    /\ inter # <<>>
    /\ \/ \E k \in 1..Len(dataset.transactions) :
             dataset.transactions[k].TokenID \notin Range(dataset.txns)
       \/ \E k \in 1..Len(dataset.transactions) :
             \A j \in 1..Len(dataset.user_features) :
                 dataset.user_features[j].Buyer # dataset.transactions[k].Buyer

(***************************************************************************)
(* C12 as stated: a transaction whose price lacks the '$' marker aborts    *)
(* the run in the labelling cell, nothing being written.                   *)
(***************************************************************************)
C12_MissingMarkerAborts ==
    [][(pc = "labels" /\ \E k \in 1..Len(df_collection) :
                            \A j \in 1..Len(df_collection[k].Price) :
                                df_collection[k].Price[j] # "$")
          => (pc' = "failed" /\ files' = files)]_vars

(***************************************************************************)
(* C12 amended: a price that is a string without '$' never aborts the      *)
(* labelling cell: the cell drops exactly the rows whose price string      *)
(* lacks the marker and keeps the others in order with buyer and token     *)
(* unchanged; when every price that carries the marker is well formed it   *)
(* converts them, saves the interactions and goes on; no dropped row       *)
(* reappears with a default price.  The cell fails, writing nothing, only  *)
(* when a row that reaches it has no price at all (an empty field), when   *)
(* the Price column of the file holds no string, or when a marked price    *)
(* cannot be converted.                                                    *)
(***************************************************************************)
C12_MissingMarkerDropped ==
    [][pc = "labels" =>
          LET raw == dataset.transactions
              worded(c) == c # <<"nan">> /\ (c = <<>> \/ c[1] # "float64")
              numerals == Len(raw) > 0 /\ \A k \in 1..Len(raw) : ~worded(raw[k].Price)
              unpriced == \E k \in 1..Len(df_collection) : ~worded(df_collection[k].Price)
              kept == SelectSeq(df_collection,
                                LAMBDA r : \E j \in 1..Len(r.Price) : r.Price[j] = "$")
              wellFormed ==
                  \A k \in 1..Len(kept) : kept[k].Price \in {P8, P10, PK, PNeg, PExp}
          IN  /\ (numerals \/ unpriced) =>
                    pc' = "failed" /\ files' = files /\ df_collection' = df_collection
              /\ ~(numerals \/ unpriced) =>
                    /\ Len(df_collection') = Len(kept)
                    /\ \A k \in 1..Len(kept) :
                          /\ df_collection'[k].Buyer = kept[k].Buyer
                          /\ df_collection'[k].TokenID = kept[k].TokenID
                    /\ wellFormed =>
                          /\ pc' = "recbole_csv"
                          /\ \A k \in 1..Len(kept) :
                                /\ kept[k].Price = P8 => df_collection'[k].Price = Fin(800, 0)
                                /\ kept[k].Price = P10 => df_collection'[k].Price = Fin(1000, 0)
                                /\ kept[k].Price = PK => df_collection'[k].Price = Fin(100000, 0)
                                /\ kept[k].Price = PNeg => df_collection'[k].Price = Fin(0 - 800, 0)
                                /\ kept[k].Price = PExp => df_collection'[k].Price = Fin(100, 0)
                          /\ "interactions" \in DOMAIN files'
                          /\ Len(files'["interactions"][1]) = Len(kept)
              /\ pc' = "failed" => (numerals \/ unpriced \/ ~wellFormed) /\ files' = files]_vars

\* five rows of one buyer reached the labelling cell and two of them, without
\* a dollar price, are gone after it
C12_Witness ==
    /\ pc = "recbole_csv"
    /\ Len(dataset.transactions) = 5
    /\ \A k \in 1..5 : dataset.transactions[k].Buyer = 161
    /\ Cardinality({k \in 1..5 : dataset.transactions[k].Price = PBare}) = 2
    /\ Len(df_collection) = 3
    /\ Len(files["interactions"][3]) = 3


(***************************************************************************)
(* C13: a run that fails at any step has persisted no artifact: in a       *)
(* failed run none of the interaction array, the counts, the user          *)
(* features, train/val/test, the popularity indices or the adjacency map   *)
(* is on disk.                                                             *)
(***************************************************************************)
C13_FailedRunPersistsNothing ==
    pc = "failed" =>
        DOMAIN files \cap {"interactions", "num_user_item", "user_feat", "train", "val",
                           "test", "indices_valid", "indices_test", "adj_dict"} = {}

\* how often key occurs in the index of table
KeyCount(table, key) == Cardinality({k \in 1..Len(table) : table[k].index = key})

\* some key occurs a different number of times in the image table than in
\* another item-feature table
KeysDisagree ==
    \E t \in {text, price, transaction} :
        \E key \in Range(Index(image)) \cup Range(Index(t)) :
            KeyCount(image, key) # KeyCount(t, key)

ItemFeatFiles == {"image_feat", "text_feat", "price_feat", "transaction_feat"}

(***************************************************************************)
(* C14: when the reindexed item-feature tables do not carry the same keys  *)
(* (compared sorted, so with multiplicity), the assertion cell halts the   *)
(* run with nothing written: none of the four item-feature artifacts is    *)
(* on disk before the cell, and the step writes none of them.              *)
(***************************************************************************)
C14_MismatchHaltsBeforeSave ==
    [][(pc = "assert_save" /\ KeysDisagree) =>
           /\ pc' = "failed"
           /\ files' = files
           /\ DOMAIN files' \cap ItemFeatFiles = {}]_vars

\* the assertion cell ran on tables whose keys disagree
C14_Witness == ItemFeatRan /\ pc = "failed" /\ KeysDisagree

(***************************************************************************)
(* C15: degenerate data never raises: whatever the interaction set, also   *)
(* when users contribute no held-out row and the held-out pool is empty or *)
(* holds one row, the split cell completes with train, valid and test      *)
(* assigned, and a user without held-out rows has all rows in train.       *)
(***************************************************************************)
C15_SplitNeverRaises ==
    [][pc = "split" =>
           /\ pc' = "recbole_indices"
           /\ \A u \in UsersOf(inter) :
                  NumSample(Cardinality(Where(inter, u))) = 0 =>
                      /\ RowsOf(train', u) = RowsOf(inter, u)
                      /\ RowsOf(valid', u) = <<>>
                      /\ RowsOf(test', u) = <<>>]_vars

\* the rows of transactions.csv whose token is in all four item feature
\* tables and whose buyer is in the user feature table
EligibleRow(r) ==
    /\ r.TokenID \in Range(dataset.img) \cap Range(dataset.txt)
                        \cap Range(dataset.prices) \cap Range(dataset.txns)
    /\ r.Buyer \in {dataset.user_features[k].Buyer : k \in 1..Len(dataset.user_features)}

EligibleCount(b) ==
    Cardinality({k \in 1..Len(dataset.transactions) :
                    dataset.transactions[k].Buyer = b /\ EligibleRow(dataset.transactions[k])})

RawCount(b) ==
    Cardinality({k \in 1..Len(dataset.transactions) : dataset.transactions[k].Buyer = b})

(***************************************************************************)
(* C16: the user cut counts feature-eligible rows: after the cut the       *)
(* frame holds exactly the eligible rows of the buyers that have at least  *)
(* CUT eligible rows, so a buyer with CUT or more raw rows but fewer       *)
(* eligible ones loses every row, and no such buyer appears in any later   *)
(* array.                                                                  *)
(***************************************************************************)
C16_CutCountsEligibleRows ==
    /\ pc = "labels" =>
          df_collection = SelectSeq(dataset.transactions,
                              LAMBDA r : EligibleRow(r) /\ EligibleCount(r.Buyer) >= CUT)
    /\ LabelsRan => \A k \in 1..Len(user) : EligibleCount(user[k]) >= CUT

\* the cut removed a buyer with at least CUT raw rows and kept another buyer
C16_Witness ==
    /\ pc = "labels"
    /\ df_collection # <<>>
    /\ \E b \in Users :
          /\ RawCount(b) >= CUT
          /\ EligibleCount(b) \in 1..(CUT - 1)
          /\ \A k \in 1..Len(df_collection) : df_collection[k].Buyer # b

\* how often item i occurs in an array of <<user, item, label>> rows
Occurrences(rows, i) == Cardinality({k \in 1..Len(rows) : rows[k][2] = i})

\* lst holds every item of rows exactly once and nothing else, in an order
\* along which the number of occurrences in rows never increases
RankedIndexOf(lst, rows) ==
    /\ Range(lst) = {rows[k][2] : k \in 1..Len(rows)}
    /\ Cardinality(Range(lst)) = Len(lst)
    /\ \A k \in 1..(Len(lst) - 1) :
           Occurrences(rows, lst[k]) >= Occurrences(rows, lst[k + 1])

(***************************************************************************)
(* C17: indices_valid (indices_test) holds every distinct mapped item of   *)
(* valid (test) exactly once and no other item, and the number of          *)
(* occurrences of the item in that split is non-increasing along the list. *)
(***************************************************************************)
C17_RankedHoldoutIndex ==
    /\ "indices_valid" \in DOMAIN files => RankedIndexOf(files["indices_valid"], valid)
    /\ "indices_test" \in DOMAIN files => RankedIndexOf(files["indices_test"], test)

\* the item held out most often in test is not the first item of test
C17_Witness ==
    /\ "indices_test" \in DOMAIN files
    /\ "indices_valid" \in DOMAIN files
    /\ Len(files["indices_test"]) = 2
    /\ Occurrences(test, files["indices_test"][1]) = 2
    /\ Occurrences(test, files["indices_test"][2]) = 1
    /\ test[1][2] = files["indices_test"][2]
    /\ Len(files["indices_valid"]) = 2

\* the dollar amount of a price string of the inputs, in cents
DollarCents(p) ==
    CASE p = P8 -> 800 [] p = P10 -> 1000 [] p = PK -> 100000
      [] p = PNeg -> 0 - 800 [] p = PExp -> 100

\* row k of transactions.csv passes the feature filter, the user cut and the
\* price-marker drop
SurvivesAt(k) ==
    LET r == dataset.transactions[k]
    IN  /\ EligibleRow(r)
        /\ EligibleCount(r.Buyer) >= CUT
        /\ \E j \in 1..Len(r.Price) : r.Price[j] = "$"

Survivors == SortedSeq({k \in 1..Len(dataset.transactions) : SurvivesAt(k)})

\* the rows of transactions.csv after row k that trade the same token
RawLater(k) ==
    {j \in (k + 1)..Len(dataset.transactions) :
        dataset.transactions[j].TokenID = dataset.transactions[k].TokenID}

(***************************************************************************)
(* C18: the label of a row compares its price with the next row of the     *)
(* same item among the rows of transactions.csv that survive the feature   *)
(* filter, the user cut and the price-marker drop; rows removed in between *)
(* are skipped, and a row without a surviving successor gets label 0.      *)
(***************************************************************************)
C18_LabelAgainstNextSurvivor ==
    LabelsRan =>
        LET s == Survivors
            raw == dataset.transactions
        IN  /\ Len(labels) = Len(s)
            /\ \A i \in 1..Len(s) :
                   LET later == {j \in (i + 1)..Len(s) : raw[s[j]].TokenID = raw[s[i]].TokenID}
                   IN  labels[i] =
                           IF /\ later # {}
                              /\ DollarCents(raw[s[Min(later)]].Price)
                                    > DollarCents(raw[s[i]].Price)
                           THEN 1 ELSE 0

\* one surviving row whose next raw trade is dearer but was removed while its
\* next surviving trade is not dearer, and one whose only successor is dearer
\* and was removed: both labelled 0
C18_Witness ==
    /\ LabelsRan
    /\ \E i \in 1..Len(Survivors), i2 \in 1..Len(Survivors) :
          LET s == Survivors
              raw == dataset.transactions
              n == Min(RawLater(s[i]))
          IN  /\ RawLater(s[i]) # {}
              /\ ~SurvivesAt(n)
              /\ raw[n].Price = P10 /\ raw[s[i]].Price = P8
              /\ \E j \in RawLater(s[i]) : SurvivesAt(j)
              /\ labels[i] = 0
              /\ RawLater(s[i2]) # {}
              /\ \A j \in RawLater(s[i2]) : ~SurvivesAt(j) /\ raw[j].Price = PK
              /\ raw[s[i2]].Price = P10
              /\ labels[i2] = 0

(***************************************************************************)
(* C19: the persisted feature arrays are aligned with the mapped index     *)
(* space whatever the row order of the input tables: row k of each saved   *)
(* item-feature array is the feature vector of mapped item k, and row j of *)
(* the saved user-feature array is the feature row of mapped user          *)
(* num_items + j.                                                          *)
(***************************************************************************)
C19_FeatureRowsAligned ==
    pc = "done" =>
        /\ \A name \in ItemFeatFiles :
               /\ Len(files[name]) = Len(item_unique)
               /\ \A k \in 1..Len(item_unique) :
                      files[name][k] = item_unique[mapping_i[item_unique[k]] + 1]
        /\ Len(files["user_feat"]) = Len(user_unique)
        /\ \A j \in 1..Len(user_unique) :
               /\ ~files["user_feat"][j].nan
               /\ mapping_u[files["user_feat"][j].of] = Len(item_unique) + j - 1
=============================================================================
